---- MODULE Spec2Model ----
(***************************************************************************)
(* Model of src/scripts/ganeshactl/ganesha_prometheus_exporter.py:         *)
(* the per-client I/O stats decoder (ClientCollector), the export          *)
(* collector, one scrape of both collectors, and the start-up path of      *)
(* main().  Python list indices are 0-based; TLA+ sequences are 1-based,   *)
(* so Python stats[k] is stats[k + 1] here.                                *)
(***************************************************************************)
EXTENDS Integers, Sequences, FiniteSets, TLC

VARIABLES
    stats,      \* decoder run: the record iops_stats.stats being decoded
    shape,      \* decoder run: the flags, values and length stats was built from
    addr,       \* decoder run: the client address passed to the decoder
    dec,        \* decoder run: cursor, protocol index, output, reads, status
    spc,        \* scrape: which collector step runs next
    scrape,     \* scrape: number of scrapes started
    log,        \* scrape: Adapter queries and yields of this scrape, in order
    emitted,    \* scrape: observations yielded by the running collector
    gstats,     \* scrape: the answer of global_stats() held by the generator
    clients,    \* scrape: the client list being iterated
    ci,         \* scrape: number of listed clients already handled
    replies,    \* scrape: the answers of client_io_ops_stats() so far
    prev,       \* scrape: addresses answered with a non-OK status last scrape
    argv,       \* main: sys.argv[1:]
    mpc,        \* main: position of the process in main()
    port,       \* main: the port returned by parseargs()
    printed,    \* main: what the process has written, in order
    exit_code,  \* main: the exit status, -1 while the process runs
    adapters,   \* main: the Adapter objects created (dbus_if of each collector)
    queries,    \* main: number of Adapter queries issued
    probe,      \* main: the (ok, status) pair returned by probe_ganesha()
    registered, \* main: the collectors registered with the registry
    http_port   \* main: the port the HTTP server listens on, -1 if not started

decVars == <<stats, shape, addr, dec>>
scrVars == <<spc, scrape, log, emitted, gstats, clients, ci, replies, prev>>
mainVars == <<argv, mpc, port, printed, exit_code, adapters, queries, probe,
              registered, http_port>>
vars == <<decVars, scrVars, mainVars>>

----------------------------------------------------------------------------
(* Bounds of the explored inputs *)
MaxFlag == 1        \* presence flags range over 0..MaxFlag
MaxSeed == 1        \* counter values are derived from a seed in 0..MaxSeed
MaxJunk == 1        \* contents of ignored slots range over 0..MaxJunk
MaxPad  == 1        \* slots a record may carry beyond its last segment
MaxTotal == 1       \* per-protocol totals of global_stats() range over 0..MaxTotal
MaxExports == 1     \* export_stats() lists 0..MaxExports exports
MaxClients == 2     \* list_clients() lists at most MaxClients clients
MaxScrapes == 2     \* scrapes served in one run
MaxArgs == 2        \* command-line arguments after the program name
MaxPortLen == 1     \* characters of an option value

----------------------------------------------------------------------------
(* Python values held in a stats slot: an integer/bool or a tuple *)
PyInt(n) == [kind |-> "int", v |-> <<n>>]
PyTup(t) == [kind |-> "tup", v |-> t]

\* truth value of a slot, as tested by "not iops_stats.stats[cnt]"
Truthy(x) == IF x.kind = "int" THEN x.v[1] # 0 ELSE Len(x.v) # 0

\* list subscript stats[idx] is defined for 0 <= idx < len(stats)
InRange(s, idx) == idx >= 0 /\ idx < Len(s)

----------------------------------------------------------------------------
(* Collector.make_name / make_gauge / ClientCollector.add_gauge_metric *)
prefix == "nfs_ganesha"

make_name(col_name, suffix) == <<prefix, col_name>> \o suffix

protos(j) ==
    CASE j = 0 -> "NFSv3"
      [] j = 1 -> "NFSv4.0"
      [] j = 2 -> "NFSv4.1"
      [] j = 3 -> "NFSv4.2"
      [] OTHER -> ""

\* str(proto).lower().replace(".", "")
protocol_tag(proto) ==
    CASE proto = "NFSv3"   -> "nfsv3"
      [] proto = "NFSv4.0" -> "nfsv40"
      [] proto = "NFSv4.1" -> "nfsv41"
      [] proto = "NFSv4.2" -> "nfsv42"
      [] OTHER -> ""

add_gauge_metric(name, a, val) ==
    [name   |-> make_name("client", name),
     labels |-> <<"addr">>,
     labval |-> <<a>>,
     val    |-> val]

----------------------------------------------------------------------------
(* ClientCollector.collect_io_ops_stats_of *)

\* operation class handled at sub-record position i of the while loop
OpName(i) ==
    CASE i = 0 -> "read"
      [] i = 1 -> "write"
      [] i = 2 -> "other"
      [] OTHER -> "none"

\* the k-th value read from a sub-record
FieldName(k) ==
    CASE k = 0 -> "total"
      [] k = 1 -> "errors"
      [] OTHER -> "transferred"

\* faulty variants: OTHER read like READ/WRITE; the slot after OTHER read too
NumFieldsOtherTransferred(i) == IF i < 3 THEN 3 ELSE 0
NumFieldsReadReserved(i) == IF i = 2 THEN 2 ELSE 3
\* how many values the branch "if i == ..." reads and yields
NumFields(i) ==
    CASE i = 0 -> 3
      [] i = 1 -> 3
      [] i = 2 -> 2
      [] OTHER -> 0

\* faulty variant: the NFSv3/NFSv4.0 stride used for every protocol
StrideAlwaysFour(j) == IF j < 4 THEN 4 ELSE 5
\* "if j < 2: cnt += 4 / else: cnt += 5"
Stride(j) == IF j < 2 THEN 4 ELSE 5

\* faulty variant: the exception is caught and dropped
RaiseSwallowed(d, e) == d
\* an exception leaves the generator: nothing more is yielded
Raise(d, e) == [d EXCEPT !.st = e]

NoteRead(d, idx) == [d EXCEPT !.reads = @ \cup {<<d.j, d.cnt, idx>>}]

RECURSIVE ReadFields(_, _, _, _, _, _)
\* val = iops_stats.stats[idx][k]; yield ...   for k, k+1, ... of branch i
ReadFields(a, s, d, idx, i, k) ==
    IF d.st # "run" \/ k >= NumFields(i) THEN d
    ELSE LET d1 == NoteRead(d, idx)
         IN  IF ~InRange(s, idx) THEN Raise(d1, "IndexError")
             ELSE IF s[idx + 1].kind = "int" THEN Raise(d1, "TypeError")
             ELSE IF ~InRange(s[idx + 1].v, k) THEN Raise(d1, "IndexError")
             ELSE LET prtag == protocol_tag(protos(d.j))
                      g == add_gauge_metric(
                               <<"io_ops", prtag, OpName(i), FieldName(k)>>,
                               a, s[idx + 1].v[k + 1])
                  IN  ReadFields(a, s, [d1 EXCEPT !.out = Append(@, g)],
                                 idx, i, k + 1)

RECURSIVE WhileLoop(_, _, _, _)
\* "while i < 4:" with its "if i == 2 and j < 2: i += 1" and "i += 1"
WhileLoop(a, s, d, i) ==
    IF d.st # "run" \/ ~(i < 4) THEN d
    ELSE LET idx == d.cnt + i + 1
             d1  == ReadFields(a, s, d, idx, i, 0)
             i1  == IF i = 2 /\ d.j < 2 THEN i + 1 ELSE i
         IN  WhileLoop(a, s, d1, i1 + 1)

\* faulty variant: an absent segment skipped by the full stride
FlagSkipByStride(d) == [d EXCEPT !.cnt = @ + Stride(d.j), !.j = @ + 1]
\* "cnt += 1; continue"
FlagSkip(d) == [d EXCEPT !.cnt = @ + 1, !.j = @ + 1]

\* one iteration of "for j in range(0, 4)"
DecodeSegment(a, s, d) ==
    LET d1 == NoteRead(d, d.cnt)
    IN  IF ~InRange(s, d.cnt) THEN Raise(d1, "IndexError")
        ELSE IF ~Truthy(s[d.cnt + 1]) THEN FlagSkip(d1)
        ELSE LET d2 == WhileLoop(a, s, d1, 0)
             IN  IF d2.st # "run" THEN d2
                 ELSE [d2 EXCEPT !.cnt = @ + Stride(d.j), !.j = @ + 1]

\* the generator's state before its first step: "cnt = 3"
DecStart == [cnt |-> 3, j |-> 0, out |-> <<>>, reads |-> {}, st |-> "run"]

\* leaving the for loop ends the generator normally
DecFinish(d) == IF d.st = "run" /\ d.j = 4 THEN [d EXCEPT !.st = "done"] ELSE d

RECURSIVE DecodeFrom(_, _, _)
DecodeFrom(a, s, d) ==
    IF d.st # "run" THEN d
    ELSE IF d.j >= 4 THEN DecFinish(d)
    ELSE DecodeFrom(a, s, DecodeSegment(a, s, d))

\* the whole generator drained by its consumer
collect_io_ops_stats_of(a, s) == DecodeFrom(a, s, DecStart)

----------------------------------------------------------------------------
(* Records handed to the decoder.  The layout is the one the decoder is    *)
(* written for: 3 leading slots, then per protocol a flag slot followed,   *)
(* when the flag is set, by READ, WRITE and OTHER sub-records and, for     *)
(* NFSv4.1/NFSv4.2, one more slot.  Every counter value is distinct.       *)

Val(seed, slot, k) == seed + 10 * slot + k + 1

Junk(r) == IF r % 2 = 0 THEN PyTup(<<r, r, r>>) ELSE PyInt(r)

LeadRegion(l) == <<PyInt(l), Junk(l + 1), PyTup(<<l, l>>)>>

\* the OTHER sub-record carries 2 values, or 3 like READ and WRITE
OtherWidths == {2, 3}

SegmentSlots(j, flag, base, seed, r, w) ==
    IF flag = 0 THEN <<PyInt(0)>>
    ELSE <<PyInt(flag),
           PyTup(<<Val(seed, base + 1, 0), Val(seed, base + 1, 1),
                   Val(seed, base + 1, 2)>>),
           PyTup(<<Val(seed, base + 2, 0), Val(seed, base + 2, 1),
                   Val(seed, base + 2, 2)>>),
           PyTup(SubSeq(<<Val(seed, base + 3, 0), Val(seed, base + 3, 1),
                          Val(seed, base + 3, 2)>>, 1, w))>>
         \o (IF j >= 2 THEN <<Junk(r)>> ELSE <<>>)

RECURSIVE Layout(_, _, _, _, _, _)
Layout(flags, j, seed, r, w, acc) ==
    IF j >= 4 THEN acc
    ELSE Layout(flags, j + 1, seed, r, w,
                acc \o SegmentSlots(j, flags[j + 1], Len(acc), seed, r, w))

FullRecord(flags, seed, l, r, w) ==
    Layout(flags, 0, seed, r, w, LeadRegion(l))

Padding(n) == [k \in 1..n |-> PyInt(0)]

\* the first n slots of the record, padded when n exceeds its length
Record(flags, seed, l, r, w, n) ==
    LET full == FullRecord(flags, seed, l, r, w)
    IN  IF n <= Len(full) THEN SubSeq(full, 1, n)
        ELSE full \o Padding(n - Len(full))

FlagSets == [1..4 -> 0..MaxFlag]
Addrs == {"10.0.0.1", "10.0.0.2", "10.0.0.3"}

----------------------------------------------------------------------------
(* ExportCollector *)

\* bool(stats.success) of a D-Bus boolean
PyBool(x) == x # 0

\* faulty variant: the total reported whatever the outcome of the query
TotalUnconditional(success, v) == v
\* "int(stats.nfsvN_total) if success else 0"
Total(success, v) == IF success THEN v ELSE 0

export_gauge(suffix, labels, labval, val) ==
    [name   |-> make_name("export", <<suffix>>),
     labels |-> labels, labval |-> labval, val |-> val]

\* the four gauges yielded by collect_global_stats, in yield order
collect_global_stats(gs) ==
    LET status  == gs.status
        success == PyBool(gs.success)
    IN  <<export_gauge("total_ops_nfsv3", <<"status">>, <<status>>,
                       Total(success, gs.nfsv3_total)),
          export_gauge("total_ops_nfsv40", <<"status">>, <<status>>,
                       Total(success, gs.nfsv40_total)),
          export_gauge("total_ops_nfsv41", <<"status">>, <<status>>,
                       Total(success, gs.nfsv41_total)),
          export_gauge("total_ops_nfsv42", <<"status">>, <<status>>,
                       Total(success, gs.nfsv42_total))>>

\* the gauge yielded by collect_export_stats
collect_export_stats(es) ==
    <<export_gauge("count", <<>>, <<>>, Len(es.exports))>>

----------------------------------------------------------------------------
(* Events of a scrape: an Adapter call, or a gauge handed to the registry *)
Query(col, call) == [col |-> col, kind |-> "query", call |-> call]
Yield(col, call) == [col |-> col, kind |-> "yield", call |-> call]

Yields(col, call, n) == [k \in 1..n |-> Yield(col, call)]

\* faulty variant: gauges handed out before the query is made
GlobalEventsYieldFirst(n) ==
    Yields("export", "global_stats", n) \o <<Query("export", "global_stats")>>
\* collect_global_stats: the query of line 70, then the n yields
GlobalEvents(n) ==
    <<Query("export", "global_stats")>> \o Yields("export", "global_stats", n)

\* collect_export_stats: the query of line 111, then the yield
ExportEvents(n) ==
    <<Query("export", "export_stats")>> \o Yields("export", "export_stats", n)

\* one pass of the loop of collect_io_ops_stats over client a
ClientEvents(a, n) ==
    <<Query("client", a)>> \o Yields("client", a, n)

----------------------------------------------------------------------------
(* ClientCollector.collect_io_ops_stats *)

\* get_clients1: obj.clients[1] when the attribute exists, else obj._clients[1]
get_clients1(obj) ==
    IF "clients" \in DOMAIN obj THEN obj.clients[2] ELSE obj["_clients"][2]

\* faulty variant: the status of the answer is not looked at
StatusOKAlways(iops) == TRUE
\* "if iops_stats.status == "OK":"
StatusOK(iops) == iops.status = "OK"

\* what one pass of the loop yields for the answer iops of client a
ClientPass(a, iops) ==
    IF StatusOK(iops) THEN collect_io_ops_stats_of(a, iops.stats)
    ELSE [DecStart EXCEPT !.st = "done"]

----------------------------------------------------------------------------
(* Answers of the Adapter *)

GlobalAnswers ==
    [success : 0..1, status : {"OK", "Unable to fetch"},
     nfsv3_total : 0..MaxTotal, nfsv40_total : 0..MaxTotal,
     nfsv41_total : 0..MaxTotal, nfsv42_total : 0..MaxTotal]

NoStats == [success |-> 0, status |-> "", nfsv3_total |-> 0,
            nfsv40_total |-> 0, nfsv41_total |-> 0, nfsv42_total |-> 0]

ExportAnswers == {[exports |-> [k \in 1..n |-> k]] : n \in 0..MaxExports}

\* no address occurs twice in the list l of client entries
Distinct(l) == \A x, y \in 1..Len(l) : x # y => l[x][1] # l[y][1]

RECURSIVE AddrLists(_)
\* the lists of at most n distinct client entries <<addr, last-seen>>
AddrLists(n) ==
    IF n = 0 THEN {<<>>}
    ELSE LET shorter == AddrLists(n - 1)
             longer  == {Append(l, <<a, 0>>) : l \in shorter, a \in Addrs}
         IN  shorter \cup {l \in longer : Distinct(l)}

ListAnswers ==
    {[clients |-> <<TRUE, l>>] : l \in AddrLists(MaxClients)} \cup
    {[k \in {"_clients"} |-> <<TRUE, l>>] : l \in AddrLists(MaxClients)}

\* one client with only NFSv4.0 active; one with all four protocols active;
\* the first one cut inside its NFSv4.0 segment
SampleRecords ==
    {FullRecord(<<0, 1, 0, 0>>, 0, 0, 0, 2),
     FullRecord(<<1, 1, 1, 1>>, 1, 0, 0, 2),
     SubSeq(FullRecord(<<0, 1, 0, 0>>, 0, 0, 0, 2), 1, 7)}

IopsAnswers == [status : {"OK", "ERROR"}, stats : SampleRecords]

----------------------------------------------------------------------------
(* Specification of the scrapes served by the registry: on every scrape    *)
(* the collect() of the export collector is drained, then the collect()    *)
(* of the client collector (their order of registration in serve_http).    *)

\* MetricsEndpoint.DEFAULT_PORT
DEFAULT_PORT == 8080

\* no probe has been made yet
NoProbe == [ok |-> FALSE, status |-> "not probed"]

\* the variables of a part of the program that a specification leaves alone
MainIdle ==
    /\ argv = <<>> /\ mpc = "idle" /\ port = DEFAULT_PORT /\ printed = <<>>
    /\ exit_code = -1 /\ adapters = {} /\ queries = 0 /\ probe = NoProbe
    /\ registered = <<>> /\ http_port = -1

ScrapeIdle ==
    /\ spc = "idle" /\ scrape = 0 /\ log = <<>> /\ emitted = <<>>
    /\ gstats = NoStats /\ clients = <<>> /\ ci = 0 /\ replies = <<>>
    /\ prev = {}

NoShape == [flags |-> <<0, 0, 0, 0>>, seed |-> 0, w |-> 2, n |-> 0]

DecodeIdle ==
    /\ stats = <<>> /\ shape = NoShape /\ addr = "" /\ dec = DecStart

InitScrape == ScrapeIdle /\ DecodeIdle /\ MainIdle

\* the addresses of this scrape answered with a status other than "OK"
NotOK ==
    {clients[k][1] : k \in {x \in 1..Len(replies) : replies[x].status # "OK"}}

\* an HTTP request arrives
StartScrape ==
    /\ spc = "idle" /\ scrape < MaxScrapes
    /\ scrape' = scrape + 1
    /\ spc' = "global_stats"
    /\ prev' = NotOK
    /\ log' = <<>> /\ emitted' = <<>> /\ gstats' = NoStats
    /\ clients' = <<>> /\ ci' = 0 /\ replies' = <<>>
    /\ UNCHANGED <<decVars, mainVars>>

\* ExportCollector.collect, first generator
CollectGlobalStats ==
    /\ spc = "global_stats"
    /\ \E gs \in GlobalAnswers :
          /\ gstats' = gs
          /\ emitted' = emitted \o collect_global_stats(gs)
          /\ log' = log \o GlobalEvents(Len(collect_global_stats(gs)))
    /\ spc' = "export_stats"
    /\ UNCHANGED <<scrape, clients, ci, replies, prev, decVars, mainVars>>

\* ExportCollector.collect, second generator
CollectExportStats ==
    /\ spc = "export_stats"
    /\ \E es \in ExportAnswers :
          /\ emitted' = emitted \o collect_export_stats(es)
          /\ log' = log \o ExportEvents(Len(collect_export_stats(es)))
    /\ spc' = "list_clients"
    /\ UNCHANGED <<scrape, gstats, clients, ci, replies, prev, decVars, mainVars>>

\* ClientCollector.collect_io_ops_stats up to the head of its loop
ListClients ==
    /\ spc = "list_clients"
    /\ \E obj \in ListAnswers : clients' = get_clients1(obj)
    /\ log' = Append(log, Query("client", "list_clients"))
    /\ emitted' = <<>> /\ gstats' = NoStats
    /\ ci' = 0 /\ replies' = <<>>
    /\ spc' = "client_loop"
    /\ UNCHANGED <<scrape, prev, decVars, mainVars>>

\* one pass of the loop for a client whose status is not "OK"
ClientSkipped ==
    /\ spc = "client_loop" /\ ci < Len(clients)
    /\ \E iops \in IopsAnswers :
          LET a == clients[ci + 1][1]
              d == ClientPass(a, iops)
          IN  /\ ~StatusOK(iops)
              /\ replies' = Append(replies, iops)
              /\ emitted' = emitted \o d.out
              /\ log' = log \o ClientEvents(a, Len(d.out))
    /\ ci' = ci + 1
    /\ UNCHANGED <<spc, scrape, gstats, clients, prev, decVars, mainVars>>

\* one pass of the loop for a client whose record decodes to its end
ClientEmitted ==
    /\ spc = "client_loop" /\ ci < Len(clients)
    /\ \E iops \in IopsAnswers :
          LET a == clients[ci + 1][1]
              d == ClientPass(a, iops)
          IN  /\ StatusOK(iops) /\ d.st = "done"
              /\ replies' = Append(replies, iops)
              /\ emitted' = emitted \o d.out
              /\ log' = log \o ClientEvents(a, Len(d.out))
    /\ ci' = ci + 1
    /\ UNCHANGED <<spc, scrape, gstats, clients, prev, decVars, mainVars>>

\* one pass of the loop in which the decoder raises: the exception leaves
\* collect() and the scrape fails
ClientDecodeError ==
    /\ spc = "client_loop" /\ ci < Len(clients)
    /\ \E iops \in IopsAnswers :
          LET a == clients[ci + 1][1]
              d == ClientPass(a, iops)
          IN  /\ StatusOK(iops) /\ d.st # "done"
              /\ replies' = Append(replies, iops)
              /\ emitted' = emitted \o d.out
              /\ log' = log \o ClientEvents(a, Len(d.out))
    /\ spc' = "failed"
    /\ UNCHANGED <<scrape, gstats, clients, ci, prev, decVars, mainVars>>

\* the loop is exhausted, or the scrape failed: the request is answered
FinishScrape ==
    /\ \/ spc = "client_loop" /\ ci = Len(clients)
       \/ spc = "failed"
    /\ spc' = "idle"
    /\ UNCHANGED <<scrape, log, emitted, gstats, clients, ci, replies, prev,
                   decVars, mainVars>>

NextScrape ==
    \/ StartScrape \/ CollectGlobalStats \/ CollectExportStats
    \/ ListClients \/ ClientSkipped \/ ClientEmitted \/ ClientDecodeError
    \/ FinishScrape

SpecScrape == InitScrape /\ [][NextScrape]_vars

----------------------------------------------------------------------------
(* Command line: parseargs, usage, goodbye *)

\* option values explored are strings over these characters
Chars == {"8", "x"}
Digits == <<"0", "1", "2", "3", "4", "5", "6", "7", "8", "9">>
IsDigit(c) == \E k \in 1..Len(Digits) : Digits[k] = c
DigitVal(c) == (CHOOSE k \in 1..Len(Digits) : Digits[k] = c) - 1

RECURSIVE Strings(_)
Strings(n) ==
    IF n = 0 THEN {<<>>}
    ELSE Strings(n - 1) \cup
         {Append(t, c) : t \in Strings(n - 1), c \in Chars}

Values == Strings(MaxPortLen)

\* the arguments: a word, "--", "-" followed by a letter and more text,
\* "--name" (val = <<"none">>) or "--name=text"
NoArg == <<"none">>
Tokens ==
    [t : {"word"}, name : {""}, val : Values] \cup
    [t : {"dashdash"}, name : {""}, val : {<<>>}] \cup
    [t : {"short"}, name : {"p"}, val : Values] \cup
    [t : {"short"}, name : {"z"}, val : {<<>>}] \cup
    [t : {"long"}, name : {"port", "po"}, val : Values \cup {NoArg}] \cup
    [t : {"long"}, name : {"bogus"}, val : {NoArg}]

RECURSIVE Lists(_)
Lists(n) ==
    IF n = 0 THEN {<<>>}
    ELSE Lists(n - 1) \cup {Append(l, t) : l \in Lists(n - 1), t \in Tokens}

\* int(a): a decimal number, or ValueError (reported as -1)
RECURSIVE ParseDigits(_, _)
ParseDigits(str, acc) ==
    IF str = <<>> THEN acc
    ELSE IF ~IsDigit(Head(str)) THEN -1
    ELSE ParseDigits(Tail(str), 10 * acc + DigitVal(Head(str)))

PyIntOf(a) ==
    IF a.t # "word" \/ a.val = <<>> THEN -1 ELSE ParseDigits(a.val, 0)

Word(v) == [t |-> "word", name |-> "", val |-> v]

\* getopt.long_has_args: a unique prefix of "port" selects --port
LongMatches(name) == name \in {"p", "po", "por", "port"}

\* getopt.getopt(sys.argv[1:], "p:", ["port="]): the options found, the
\* remaining arguments, and whether GetoptError was raised
RECURSIVE getopt(_, _)
getopt(args, opts) ==
    IF args = <<>> \/ Head(args).t = "word"
    THEN [err |-> FALSE, opts |-> opts, args |-> args]
    ELSE LET a == Head(args)
             rest == Tail(args)
         IN  CASE a.t = "dashdash" ->
                    [err |-> FALSE, opts |-> opts, args |-> rest]
               [] a.t = "long" ->
                    IF ~LongMatches(a.name)
                    THEN [err |-> TRUE, opts |-> opts, args |-> rest]
                    ELSE IF a.val # NoArg
                    THEN getopt(rest, Append(opts, <<"--port", Word(a.val)>>))
                    ELSE IF rest = <<>>
                    THEN [err |-> TRUE, opts |-> opts, args |-> rest]
                    ELSE getopt(Tail(rest),
                                Append(opts, <<"--port", Head(rest)>>))
               [] a.t = "short" ->
                    IF a.name # "p"
                    THEN [err |-> TRUE, opts |-> opts, args |-> rest]
                    ELSE IF a.val # <<>>
                    THEN getopt(rest, Append(opts, <<"-p", Word(a.val)>>))
                    ELSE IF rest = <<>>
                    THEN [err |-> TRUE, opts |-> opts, args |-> rest]
                    ELSE getopt(Tail(rest), Append(opts, <<"-p", Head(rest)>>))

\* goodbye(exit_code, msg): print, sleep, sys.exit
goodbye(code, msg, out) == [exit |-> code, out |-> Append(out, msg)]

\* usage(exit_code)
usage(code, out) == goodbye(code, "usage: [--port=PORT]", out)

RECURSIVE PortLoop(_, _)
\* "for o, a in opts:" of parseargs
PortLoop(opts, p) ==
    IF opts = <<>> THEN [kind |-> "ok", port |-> p, exit |-> -1, out |-> <<>>]
    ELSE IF Head(opts)[1] \in {"-p", "--port"}
    THEN IF PyIntOf(Head(opts)[2]) < 0
         THEN [kind |-> "ValueError", port |-> p, exit |-> 1,
               out |-> <<"Traceback: ValueError">>]
         ELSE PortLoop(Tail(opts), PyIntOf(Head(opts)[2]))
    ELSE [kind |-> "usage", port |-> p] @@ usage(3, <<>>)

\* parseargs(): the port, or the way the process ends
parseargs(av) ==
    LET g == getopt(av, <<>>)
    IN  IF g.err
        THEN [kind |-> "usage", port |-> DEFAULT_PORT]
                @@ usage(1, <<"getopt error">>)
        ELSE IF Len(g.args) > 0
        THEN [kind |-> "usage", port |-> DEFAULT_PORT] @@ usage(2, <<>>)
        ELSE PortLoop(g.opts, DEFAULT_PORT)

----------------------------------------------------------------------------
(* MetricsEndpoint and main *)

\* probe_ganesha: (bool(stats.success), str(stats.status))
probe_ganesha(gs) == [ok |-> PyBool(gs.success), status |-> gs.status]

\* faulty variant: the outcome of the probe is not looked at
NeverExit(ok) == FALSE
\* "if not ok:" of main
ProbeFailed(ok) == ~ok

InitMain ==
    /\ argv \in Lists(MaxArgs)
    /\ mpc = "start" /\ port = DEFAULT_PORT /\ printed = <<>>
    /\ exit_code = -1 /\ adapters = {} /\ queries = 0 /\ probe = NoProbe
    /\ registered = <<>> /\ http_port = -1
    /\ ScrapeIdle /\ DecodeIdle

\* parseargs() returns the port
ParseArgsReturns ==
    /\ mpc = "start"
    /\ parseargs(argv).kind = "ok"
    /\ port' = parseargs(argv).port
    /\ mpc' = "parsed"
    /\ UNCHANGED <<argv, printed, exit_code, adapters, queries, probe,
                   registered, http_port, decVars, scrVars>>

\* parseargs() ends the process through usage()
ParseArgsUsage ==
    /\ mpc = "start"
    /\ parseargs(argv).kind = "usage"
    /\ printed' = printed \o parseargs(argv).out
    /\ exit_code' = parseargs(argv).exit
    /\ mpc' = "exited"
    /\ UNCHANGED <<argv, port, adapters, queries, probe, registered,
                   http_port, decVars, scrVars>>

\* int(a) raises in parseargs() and nothing catches it
ParseArgsRaises ==
    /\ mpc = "start"
    /\ parseargs(argv).kind = "ValueError"
    /\ printed' = printed \o parseargs(argv).out
    /\ exit_code' = parseargs(argv).exit
    /\ mpc' = "exited"
    /\ UNCHANGED <<argv, port, adapters, queries, probe, registered,
                   http_port, decVars, scrVars>>

\* MetricsEndpoint(port): both collectors create their Adapter object
CreateEndpoint ==
    /\ mpc = "parsed"
    /\ adapters' = {"RetrieveExportStats", "RetrieveClientStats"}
    /\ mpc' = "created"
    /\ UNCHANGED <<argv, port, printed, exit_code, queries, probe, registered,
                   http_port, decVars, scrVars>>

\* metrics_endpoint.probe_ganesha()
ProbeGanesha ==
    /\ mpc = "created"
    /\ \E gs \in GlobalAnswers : probe' = probe_ganesha(gs)
    /\ queries' = queries + 1
    /\ mpc' = "probed"
    /\ UNCHANGED <<argv, port, printed, exit_code, adapters, registered,
                   http_port, decVars, scrVars>>

\* goodbye(1, status)
ProbeGoodbye ==
    /\ mpc = "probed"
    /\ ProbeFailed(probe.ok)
    /\ printed' = goodbye(1, probe.status, printed).out
    /\ exit_code' = goodbye(1, probe.status, printed).exit
    /\ mpc' = "exited"
    /\ UNCHANGED <<argv, port, adapters, queries, probe, registered,
                   http_port, decVars, scrVars>>

\* metrics_endpoint.serve_http(), which never returns
ServeHttp ==
    /\ mpc = "probed"
    /\ ~ProbeFailed(probe.ok)
    /\ registered' = <<"export_col", "client_col">>
    /\ http_port' = port
    /\ mpc' = "serving"
    /\ UNCHANGED <<argv, port, printed, exit_code, adapters, queries, probe,
                   decVars, scrVars>>

NextMain ==
    \/ ParseArgsReturns \/ ParseArgsUsage \/ ParseArgsRaises
    \/ CreateEndpoint \/ ProbeGanesha \/ ProbeGoodbye \/ ServeHttp

SpecMain == InitMain /\ [][NextMain]_vars

----------------------------------------------------------------------------
(* Properties of the start-up path *)

\* C7: when the one global-stats probe of main returns success=false, the
\* process prints the returned status string and exits with a nonzero code,
\* without ever registering the collectors or starting the HTTP server; the
\* HTTP server is started only after a probe that returned success=true.
C7_StartupFailFast ==
    /\ queries <= 1
    /\ (queries = 1 /\ ~probe.ok) =>
          /\ registered = <<>> /\ http_port = -1
          /\ mpc \in {"probed", "exited"}
          /\ mpc = "exited" =>
                /\ exit_code > 0
                /\ printed = <<probe.status>>
    /\ (http_port # -1 \/ registered # <<>> \/ mpc = "serving") =>
          queries = 1 /\ probe.ok

\* the process exited after a failed probe had reported its status
C7_Witness ==
    /\ mpc = "exited" /\ queries = 1 /\ ~probe.ok
    /\ probe.status = "Unable to fetch" /\ exit_code = 1
    /\ printed = <<"Unable to fetch">>

\* the command line is a configuration error: getopt rejects it, it has a
\* positional argument, or the value given for the port is not a number
ConfigError(av) == parseargs(av).kind # "ok"

\* C8: every command line that is a configuration error (unknown flag,
\* positional argument, bad port value) makes the process report the usage
\* text and exit with a nonzero code before any Adapter object is created
\* or queried.
C8_ConfigErrorUsage ==
    (mpc # "start" /\ ConfigError(argv)) =>
        /\ mpc = "exited"
        /\ exit_code > 0
        /\ \E k \in 1..Len(printed) : printed[k] = "usage: [--port=PORT]"
        /\ adapters = {} /\ queries = 0

----------------------------------------------------------------------------
(* Specification of one decoder run *)

InitDecode ==
    /\ \E flags \in FlagSets, seed \in 0..MaxSeed, w \in OtherWidths :
          \E n \in 0..(Len(FullRecord(flags, seed, 0, 0, w)) + MaxPad) :
             /\ stats = Record(flags, seed, 0, 0, w, n)
             /\ shape = [flags |-> flags, seed |-> seed, w |-> w, n |-> n]
    /\ addr \in {"10.0.0.1", "10.0.0.2"}
    /\ dec = DecStart
    /\ ScrapeIdle
    /\ MainIdle

\* the flag at the cursor is false: "cnt += 1; continue"
SkipSegment ==
    /\ dec.st = "run" /\ dec.j < 4
    /\ InRange(stats, dec.cnt) /\ ~Truthy(stats[dec.cnt + 1])
    /\ dec' = DecodeSegment(addr, stats, dec)
    /\ UNCHANGED <<stats, shape, addr, scrVars, mainVars>>

\* the flag at the cursor is true and the segment is read to its end
EmitSegment ==
    /\ dec.st = "run" /\ dec.j < 4
    /\ InRange(stats, dec.cnt) /\ Truthy(stats[dec.cnt + 1])
    /\ DecodeSegment(addr, stats, dec).st = "run"
    /\ dec' = DecodeSegment(addr, stats, dec)
    /\ UNCHANGED <<stats, shape, addr, scrVars, mainVars>>

\* a subscript raises while the segment is read
RaiseError ==
    /\ dec.st = "run" /\ dec.j < 4
    /\ DecodeSegment(addr, stats, dec).st # "run"
    /\ dec' = DecodeSegment(addr, stats, dec)
    /\ UNCHANGED <<stats, shape, addr, scrVars, mainVars>>

\* the for loop is exhausted and the generator returns
FinishDecode ==
    /\ dec.st = "run" /\ dec.j = 4
    /\ dec' = DecFinish(dec)
    /\ UNCHANGED <<stats, shape, addr, scrVars, mainVars>>

NextDecode == SkipSegment \/ EmitSegment \/ RaiseError \/ FinishDecode

SpecDecode == InitDecode /\ [][NextDecode]_vars

----------------------------------------------------------------------------
(* Properties of the decoder *)

\* the flag reads done so far: <<j, c>> with c the cursor of segment j
FlagReads == {<<r[1], r[2]>> : r \in {q \in dec.reads : q[3] = q[2]}}

\* segments whose flag slot exists and is true / false
ActiveSegs == {fr \in FlagReads :
                 InRange(stats, fr[2]) /\ Truthy(stats[fr[2] + 1])}
IdleSegs   == {fr \in FlagReads :
                 InRange(stats, fr[2]) /\ ~Truthy(stats[fr[2] + 1])}

\* the observations emitted so far for protocol index j
ObsOf(j) ==
    SelectSeq(dec.out, LAMBDA g : g.name[4] = protocol_tag(protos(j)))

\* slot idx of the record is a sub-record with at least n values
HasSub(idx, n) ==
    InRange(stats, idx) /\ stats[idx + 1].kind = "tup"
                        /\ Len(stats[idx + 1].v) >= n

Obs(tag, op, field, val) ==
    [name   |-> <<"nfs_ganesha", "client", "io_ops", tag, op, field>>,
     labels |-> <<"addr">>, labval |-> <<addr>>, val |-> val]

Expected8(tag, c) ==
    <<Obs(tag, "read",  "total",       stats[c + 2].v[1]),
      Obs(tag, "read",  "errors",      stats[c + 2].v[2]),
      Obs(tag, "read",  "transferred", stats[c + 2].v[3]),
      Obs(tag, "write", "total",       stats[c + 3].v[1]),
      Obs(tag, "write", "errors",      stats[c + 3].v[2]),
      Obs(tag, "write", "transferred", stats[c + 3].v[3]),
      Obs(tag, "other", "total",       stats[c + 4].v[1]),
      Obs(tag, "other", "errors",      stats[c + 4].v[2])>>

TagOf(j) == <<"nfsv3", "nfsv40", "nfsv41", "nfsv42">>[j + 1]

\* C1: for every protocol index j whose flag at the cursor c is nonzero
\* (and whose three sub-records are present at c+1..c+3), the decoder emits
\* for that protocol exactly the 8 observations read_total, read_errors,
\* read_transferred, write_total, write_errors, write_transferred,
\* other_total, other_errors with the values stats[c+1][0..2],
\* stats[c+2][0..2], stats[c+3][0..1], labelled with the client's addr;
\* no "transferred" observation is ever emitted for OTHER.
C1_EightPerActiveProtocol ==
    /\ \A fr \in ActiveSegs :
          (HasSub(fr[2] + 1, 3) /\ HasSub(fr[2] + 2, 3) /\ HasSub(fr[2] + 3, 2))
             => ObsOf(fr[1]) = Expected8(TagOf(fr[1]), fr[2])
    /\ \A k \in 1..Len(dec.out) :
          ~(dec.out[k].name[5] = "other" /\ dec.out[k].name[6] = "transferred")

\* an NFSv4.0 and an NFSv4.2 segment were both decoded in one run
C1_Witness ==
    /\ dec.st = "done"
    /\ \E fr \in ActiveSegs : fr[1] = 1 /\ Len(ObsOf(1)) = 8
    /\ \E fr \in ActiveSegs : fr[1] = 3 /\ Len(ObsOf(3)) = 8

\* C2: for every protocol index j whose flag at the cursor is zero, nothing
\* is emitted for that protocol and the cursor moves by exactly one slot
\* before the next protocol is examined.
C2_ZeroFlagSkipsOneSlot ==
    \A fr \in IdleSegs :
        /\ ObsOf(fr[1]) = <<>>
        /\ dec.j > fr[1]
        /\ dec.j = fr[1] + 1 => dec.cnt = fr[2] + 1
        /\ \A fr2 \in FlagReads : fr2[1] = fr[1] + 1 => fr2[2] = fr[2] + 1

\* a zero flag was skipped and the next protocol, active, was then decoded
C2_Witness ==
    \E fr \in IdleSegs : \E fr2 \in ActiveSegs :
        fr2[1] = fr[1] + 1 /\ Len(ObsOf(fr2[1])) = 8 /\ Len(dec.out) = 8

AllFlagsRead == Cardinality(FlagReads) = 4
AllActive == AllFlagsRead /\ ActiveSegs = FlagReads
AllIdle   == AllFlagsRead /\ IdleSegs = FlagReads

\* C3 as stated: with all four flags nonzero the decoder consumes 19 slots
\* past the leading 3-element region, with all four zero it consumes 4.
C3_Original ==
    /\ (dec.st = "done" /\ AllActive) => dec.cnt - 3 = 19
    /\ (dec.st = "done" /\ AllIdle) => dec.cnt - 3 = 4

\* C3 (amended): starting from cursor 3, decoding a record whose four flags
\* are all nonzero moves the cursor by 4 + 4 + 5 + 5 = 18 slots (4 for
\* protocol index < 2, 5 for index >= 2); decoding a record whose four flags
\* are all zero moves it by 4 slots.
C3_StrideEighteen ==
    /\ \A fr \in ActiveSegs :
          dec.j = fr[1] + 1 => dec.cnt = fr[2] + (IF fr[1] < 2 THEN 4 ELSE 5)
    /\ (dec.st = "done" /\ AllActive) => dec.cnt - 3 = 18
    /\ (dec.st = "done" /\ AllIdle) => dec.cnt - 3 = 4

C3_Witness == dec.st = "done" /\ AllActive /\ Len(dec.out) = 32

\* the indices read while segment j (cursor c) was processed
ReadsOf(fr) == {r[3] : r \in {q \in dec.reads : q[1] = fr[1] /\ q[2] = fr[2]}}

SegWidth(j) == IF j < 2 THEN 4 ELSE 5

\* C6 as stated: a record with fewer than c + stride(j) elements for an
\* active protocol j never decodes to a normal end, and segment j is never
\* read at or beyond c + stride(j).
C6_Original ==
    \A fr \in ActiveSegs :
        /\ Len(stats) < fr[2] + SegWidth(fr[1]) => dec.st # "done"
        /\ \A idx \in ReadsOf(fr) : idx < fr[2] + SegWidth(fr[1])

\* C6 (amended): for every active protocol j at cursor c, a record with
\* fewer than c + stride(j) elements ends decoding in an error and never
\* completes normally, except when j is the last protocol (NFSv4.2) and only
\* its trailing reserved slot is missing (the record has exactly c + 4
\* elements): that record decodes normally with all 8 observations of the
\* protocol.  Segment j is never read at or beyond c + 4.
C6_ShortRecordRaises ==
    \A fr \in ActiveSegs :
        /\ (Len(stats) < fr[2] + SegWidth(fr[1])
               /\ ~(fr[1] = 3 /\ Len(stats) = fr[2] + 4))
              => /\ dec.st # "done"
                 /\ dec.j <= fr[1] + 1
        /\ (fr[1] = 3 /\ Len(stats) = fr[2] + 4)
              => /\ dec.st \in {"run", "done"}
                 /\ Len(ObsOf(3)) = 8
        /\ \A idx \in ReadsOf(fr) : idx < fr[2] + 4

\* a record cut inside an active segment ended in IndexError after part of
\* the segment had been emitted
C6_Witness ==
    /\ dec.st = "IndexError"
    /\ \E fr \in ActiveSegs :
          /\ Len(stats) < fr[2] + SegWidth(fr[1])
          /\ Len(ObsOf(fr[1])) \in 1..7

\* the slots the projection ignores: the leading 3 and the slot at c + 4 of
\* an active NFSv4.1/NFSv4.2 segment
IgnoredSlots ==
    {0, 1, 2} \cup {fr[2] + 4 : fr \in {q \in ActiveSegs : q[1] >= 2}}

\* the record that differs from stats only in the contents l of the leading
\* region and r of the reserved slots
Twin(l, r) == Record(shape.flags, shape.seed, l, r, shape.w, shape.n)

\* C10: two records that agree on the flags and on the READ/WRITE/OTHER
\* sub-records and differ only in the leading 3 slots and in the trailing
\* reserved slot of active NFSv4.1/NFSv4.2 segments decode to identical
\* observation sequences, and those slots are never read.
C10_IgnoredSlotsDoNotMatter ==
    /\ stats = Twin(0, 0)
    /\ dec.st # "run" =>
          \A l \in 0..MaxJunk : \A r \in {0, l} :
              LET d2 == collect_io_ops_stats_of(addr, Twin(l, r))
              IN  d2.out = dec.out /\ d2.st = dec.st
    /\ \A r \in dec.reads : r[3] \notin IgnoredSlots

\* a run over a record with an active NFSv4.1 segment, one of whose twins
\* differs both in the leading region and in that segment's reserved slot
C10_Witness ==
    /\ dec.st = "done"
    /\ \E fr \in ActiveSegs :
          /\ fr[1] = 2 /\ InRange(stats, fr[2] + 4)
          /\ Twin(1, 1)[fr[2] + 5] # stats[fr[2] + 5]
    /\ Twin(1, 1)[1] # stats[1]
    /\ Len(dec.out) >= 8

----------------------------------------------------------------------------
(* Properties of the collectors *)

GlobalObs(suffix, total) ==
    [name   |-> <<"nfs_ganesha", "export", suffix>>,
     labels |-> <<"status">>, labval |-> <<gstats.status>>,
     val    |-> IF gstats.success # 0 THEN total ELSE 0]

Expected4 ==
    <<GlobalObs("total_ops_nfsv3",  gstats.nfsv3_total),
      GlobalObs("total_ops_nfsv40", gstats.nfsv40_total),
      GlobalObs("total_ops_nfsv41", gstats.nfsv41_total),
      GlobalObs("total_ops_nfsv42", gstats.nfsv42_total)>>

\* C4: for every global_stats() answer, collect_global_stats yields exactly
\* four observations, total_ops_nfsv3, total_ops_nfsv40, total_ops_nfsv41,
\* total_ops_nfsv42 in this order, each with the single label status set to
\* the returned status string; every value is 0 when success is false and
\* the protocol's total when success is true.
C4_GlobalStatsFourGauges ==
    /\ spc = "export_stats" => emitted = Expected4
    /\ spc = "list_clients" =>
          Len(emitted) = 5 /\ SubSeq(emitted, 1, 4) = Expected4

\* a failed query with nonzero totals was projected to zeros
C4_Witness ==
    /\ spc = "export_stats"
    /\ gstats.success = 0 /\ gstats.status = "Unable to fetch"
    /\ gstats.nfsv3_total # 0 /\ gstats.nfsv42_total # 0
    /\ Len(emitted) = 4 /\ emitted[1].val = 0 /\ emitted[4].val = 0

\* what the answer to the k-th per-client query of this scrape must yield
ExpectedOf(k) ==
    IF replies[k].status = "OK"
    THEN collect_io_ops_stats_of(clients[k][1], replies[k].stats).out
    ELSE <<>>

RECURSIVE ExpectedUpTo(_)
ExpectedUpTo(k) == IF k = 0 THEN <<>> ELSE ExpectedUpTo(k - 1) \o ExpectedOf(k)

\* the observations of this scrape labelled with address a
EmittedFor(a) == SelectSeq(emitted, LAMBDA g : g.labval = <<a>>)

\* the per-client queries of this scrape issued for address a
QueriesFor(a) == SelectSeq(log, LAMBDA e : e = Query("client", a))

InClientCollect == spc \in {"client_loop", "failed"} \/ (spc = "idle" /\ scrape > 0)

\* C5: in every scrape, a listed client whose IO-stats query returns a status
\* other than "OK" gets no observation (it is neither zeroed nor queried
\* again) and the loop goes on to the other listed clients; a client whose
\* query returns "OK" gets its full set.  What the client collector has
\* emitted is determined by the answers of this scrape alone.
C5_NonOKClientOmitted ==
    InClientCollect =>
       /\ emitted = ExpectedUpTo(Len(replies))
       /\ \A k \in 1..Len(replies) :
             /\ Len(QueriesFor(clients[k][1])) = 1
             /\ EmittedFor(clients[k][1]) = ExpectedOf(k)
             /\ replies[k].status # "OK" =>
                   /\ EmittedFor(clients[k][1]) = <<>>
                   /\ k = Len(replies) => (spc # "failed" /\ ci = k)
       /\ spc = "client_loop" => ci = Len(replies)
       /\ spc = "idle" =>
             \/ Len(replies) = Len(clients)
             \/ /\ replies # <<>>
                /\ replies[Len(replies)].status = "OK"
                /\ collect_io_ops_stats_of(clients[Len(replies)][1],
                       replies[Len(replies)].stats).st # "done"

\* second scrape: the first client is skipped, the second, skipped in the
\* first scrape, now answers "OK" and gets its 8 observations
C5_Witness ==
    /\ scrape = 2 /\ spc = "idle" /\ Len(replies) = 2
    /\ replies[1].status = "ERROR" /\ replies[2].status = "OK"
    /\ clients[2][1] \in prev
    /\ Len(EmittedFor(clients[2][1])) = 8 /\ Len(emitted) = 8

\* C9 as stated: a collector issues all its queries of a scrape before its
\* first observation and never queries again once it has emitted.
C9_Original ==
    \A p, q \in 1..Len(log) :
        (p < q /\ log[p].col = log[q].col) =>
            ~(log[p].kind = "yield" /\ log[q].kind = "query")

\* the position of the last query of log[p]'s collector before position p
RECURSIVE LastQuery(_, _)
LastQuery(p, q) ==
    IF q = 0 THEN 0
    ELSE IF log[q].kind = "query" /\ log[q].col = log[p].col THEN q
    ELSE LastQuery(p, q - 1)

ExportLog == SelectSeq(log, LAMBDA e : e.col = "export")

\* C9 (amended): within one scrape each collector starts from and returns to
\* Idle, and every observation is emitted after the Adapter query that
\* supplied its data, but querying and emitting alternate: the export
\* collector issues its export-stats query after emitting the four
\* global-stats observations, and the client collector issues each client's
\* IO-stats query after emitting the previous client's observations.
C9_QueryBeforeItsYields ==
    /\ \A p \in 1..Len(log) :
          log[p].kind = "yield" =>
             /\ LastQuery(p, p - 1) > 0
             /\ log[LastQuery(p, p - 1)].call = log[p].call
    /\ spc \in {"list_clients", "client_loop", "failed"} =>
          ExportLog = <<Query("export", "global_stats"),
                        Yield("export", "global_stats"),
                        Yield("export", "global_stats"),
                        Yield("export", "global_stats"),
                        Yield("export", "global_stats"),
                        Query("export", "export_stats"),
                        Yield("export", "export_stats")>>
    /\ spc = "global_stats" => log = <<>>

\* a finished scrape in which the client collector queried its second client
\* after the observations of the first
C9_Witness ==
    /\ spc = "idle" /\ scrape > 0 /\ Len(replies) = 2
    /\ \E p, q \in 1..Len(log) :
          /\ p < q /\ log[p] = Yield("client", clients[1][1])
          /\ log[q] = Query("client", clients[2][1])
    /\ Len(EmittedFor(clients[2][1])) = 8

====
